---- MODULE Spec2Model ----
(***************************************************************************)
(* A model of the time-tracking dashboard src/src/time.py: the midnight    *)
(* splitter build_split, the calendar windows of get_period_dates, the     *)
(* navigation callbacks shift_period_left / shift_period_right over        *)
(* st.session_state, the category catalog and the text summary of          *)
(* show_copyable_text.                                                     *)
(*                                                                         *)
(* Representation.                                                         *)
(*   - A datetime.date is its proleptic Gregorian ordinal (date.toordinal, *)
(*     0001-01-01 = 1, a Monday).                                          *)
(*   - A timestamp is [day |-> ordinal, ms |-> millisecond of the day].    *)
(*   - A duration in hours is held as the exact number of milliseconds,    *)
(*     i.e. as the numerator of the fraction x / MsPerHour; float rounding *)
(*     is not modelled.                                                    *)
(*   - An optional value (None, NaN, NaT, a raised exception instead of a  *)
(*     result) is the empty sequence <<>>; a present value v is <<v>>.     *)
(***************************************************************************)
EXTENDS Integers, Sequences, FiniteSets, TLC

VARIABLES
    df_raw,                 \* the loaded rows (sequence of records)
    df_split,               \* the segments returned by build_split
    global_category_order,  \* the catalog: sequence of category names
    include_sleep,          \* the checkbox 'include_sleep'
    today,                  \* what datetime.date.today() returns
    session_state,          \* st.session_state["current_<period>"], per kind
    view,                   \* what the last script run rendered, per tab
    category_duration,      \* the daily matrix (date, category) -> hours
    err,                    \* the exception that ended the last handler, or "none"
    trail,                  \* the navigation clicks made so far
    stage                   \* "loaded": rows read; "split": build_split done;
                            \* "session": the script has run at least once

vars == <<df_raw, df_split, global_category_order, category_duration,
          include_sleep, today, session_state, view, err, trail, stage>>

-----------------------------------------------------------------------------
(* Bounds of the model and constants of the program *)

MsPerHour == 3600000
MsPerDay == 86400000
MsPerMinute == 60000

\* the longest record of the splitter's inputs spans this many whole days
MaxSpanDays == 2
\* the number of navigation clicks in one run of the calendar specification
MaxShifts == 2
\* the number of rows of a session's data, and of its navigation clicks
MaxRows == 2
MaxSessionShifts == 1
MaxCalls == 1
MaxFmtHours == 1

None == <<>>
Some(v) == <<v>>
IsSome(o) == o # <<>>
Val(o) == o[1]

\* F(v), with v evaluated once
Bind(v, F(_)) == CHOOSE y \in {F(x) : x \in {v}} : TRUE

Min(a, b) == IF a <= b THEN a ELSE b
Max(a, b) == IF a >= b THEN a ELSE b

Range(s) == {s[i] : i \in 1..Len(s)}

-----------------------------------------------------------------------------
(* datetime.date: the calendar arithmetic the program's calls rely on *)

IsLeap(y) == (y % 4 = 0) /\ ((y % 100 # 0) \/ (y % 400 = 0))

DaysInMonth(y, m) ==
    IF m = 2 THEN (IF IsLeap(y) THEN 29 ELSE 28)
    ELSE IF m \in {4, 6, 9, 11} THEN 30 ELSE 31

DaysBeforeYear(y) ==
    (y - 1) * 365 + ((y - 1) \div 4) - ((y - 1) \div 100) + ((y - 1) \div 400)

RECURSIVE DaysBeforeMonth(_, _)
DaysBeforeMonth(y, m) ==
    IF m = 1 THEN 0 ELSE DaysBeforeMonth(y, m - 1) + DaysInMonth(y, m - 1)

\* date.toordinal() of a valid (y, m, d)
Ymd2Ord(y, m, d) == DaysBeforeYear(y) + DaysBeforeMonth(y, m) + d

ValidYmd(y, m, d) == y >= 1 /\ m \in 1..12 /\ d >= 1 /\ d <= DaysInMonth(y, m)

\* date.fromordinal: the year, month and day of an ordinal
YearOf(n) ==
    LET n0   == n - 1
        n400 == n0 \div 146097
        r400 == n0 % 146097
        n100 == r400 \div 36524
        r100 == r400 % 36524
        n4   == r100 \div 1461
        r4   == r100 % 1461
        n1   == r4 \div 365
        y    == n400 * 400 + 1 + n100 * 100 + n4 * 4 + n1
    IN  IF n1 = 4 \/ n100 = 4 THEN y - 1 ELSE y

RECURSIVE MonthFrom(_, _, _)
\* the month holding the k-th day (1-based) of year y, searching from month m
MonthFrom(y, m, k) ==
    IF k <= DaysInMonth(y, m) THEN m ELSE MonthFrom(y, m + 1, k - DaysInMonth(y, m))

MonthOf(n) == MonthFrom(YearOf(n), 1, n - DaysBeforeYear(YearOf(n)))

DayOf(n) == n - DaysBeforeYear(YearOf(n)) - DaysBeforeMonth(YearOf(n), MonthOf(n))

\* datetime.date(y, m, d): the date, or None where Python raises ValueError
MakeDate(y, m, d) == IF ValidYmd(y, m, d) THEN Some(Ymd2Ord(y, m, d)) ELSE None

\* date.weekday(): Monday = 0 .. Sunday = 6
Weekday(n) == (n + 6) % 7

-----------------------------------------------------------------------------
(* Timestamps *)

Ts(day, ms) == [day |-> day, ms |-> ms]

\* ts + pd.Timedelta(milliseconds = d)
TsAdd(ts, d) == Ts(ts.day + ((ts.ms + d) \div MsPerDay), (ts.ms + d) % MsPerDay)

\* (a - b).total_seconds() * 1000
TsDiffMs(a, b) == (a.day - b.day) * MsPerDay + (a.ms - b.ms)

TsLe(a, b) == a.day < b.day \/ (a.day = b.day /\ a.ms <= b.ms)

-----------------------------------------------------------------------------
(* build_split: rows -> day-aligned segments (time.py 29-75) *)

\* A row of df_raw.  'activityDuration [ms]' and activityStartDate are optional:
\* None is a cell that pd.to_numeric / pd.to_datetime coerce to NaN / NaT.
Row(cat, act, start, dur, note) ==
    [activityCategoryName |-> cat, activityName |-> act,
     activityStartDate |-> start, activityDuration |-> dur, note |-> note]

\* lines 33-34 and 39-40: rows whose duration or start did not parse are dropped
RowKept(row) == IsSome(row.activityDuration) /\ IsSome(row.activityStartDate)

\* the record appended to `records` for one piece of a row
Segment(row, start, end, ms) ==
    [start |-> start, end |-> end,
     activityCategoryName |-> row.activityCategoryName,
     activityName |-> row.activityName,
     note |-> row.note,
     duration_hours |-> ms,
     date |-> start.day]

\* line 51: midnight after `current`
NextDayNoTruncate(current) == TsAdd(current, MsPerDay)
NextDay(current) == TsAdd(Ts(current.day, 0), MsPerDay)

\* line 52
MsInDay(current) == TsDiffMs(NextDay(current), current)

\* line 61
RemainingKeep(remaining_ms, ms_in_day) == remaining_ms
RemainingAfter(remaining_ms, ms_in_day) == remaining_ms - ms_in_day

\* line 50: the loop condition
CrossesMidnight(current, end) == current.day < end.day

RECURSIVE SplitLoop(_, _, _, _, _)
\* lines 50-70: the while loop, then the final segment
SplitLoop(row, current, remaining_ms, end, records) ==
    IF CrossesMidnight(current, end)
    THEN SplitLoop(row, NextDay(current),
                   RemainingAfter(remaining_ms, MsInDay(current)), end,
                   Append(records,
                          Segment(row, current, NextDay(current), MsInDay(current))))
    ELSE Append(records, Segment(row, current, end, remaining_ms))

\* lines 45-70: the segments of one row
SplitRow(row) ==
    LET start == Val(row.activityStartDate)
        duration_ms == Val(row.activityDuration)
        end == TsAdd(start, duration_ms)
    IN  SplitLoop(row, start, duration_ms, end, <<>>)

RECURSIVE build_split(_)
\* lines 29-75
build_split(df) ==
    IF df = <<>> THEN <<>>
    ELSE (IF RowKept(Head(df)) THEN SplitRow(Head(df)) ELSE <<>>)
         \o build_split(Tail(df))

-----------------------------------------------------------------------------
(* get_period_dates and the shift rules (time.py 158-189, 486-510) *)

Periods == {"Day", "Week", "Month", "Year"}

\* current_date.replace(day = d) etc.: None where Python raises ValueError
ReplaceDay(n, d) == MakeDate(YearOf(n), MonthOf(n), d)
ReplaceMonthDay(n, m, d) == MakeDate(YearOf(n), m, d)
ReplaceYear(n, y) == MakeDate(y, MonthOf(n), DayOf(n))

\* lines 497-499
WeekStartSunday(current_date) == current_date - ((Weekday(current_date) + 1) % 7)
WeekStart(current_date) == current_date - Weekday(current_date)

\* lines 501-504: the last day of the month whose first day is `start`
MonthEndPlus28(start) == Val(ReplaceDay(start + 28, 1)) - 1
MonthEnd(start) == Val(ReplaceDay(start + 32, 1)) - 1

\* lines 486-510: <<start, end>>; current_date is optional (None -> today)
get_period_dates(period, current_opt, td) ==
    LET current_date == IF IsSome(current_opt) THEN Val(current_opt) ELSE td
    IN  CASE period = "Day"   -> <<current_date, current_date>>
          [] period = "Week"  -> <<WeekStart(current_date), WeekStart(current_date) + 6>>
          [] period = "Month" ->
                LET start == Val(ReplaceDay(current_date, 1))
                IN  <<start, MonthEnd(start)>>
          [] period = "Year"  -> <<Val(ReplaceMonthDay(current_date, 1, 1)),
                                   Val(ReplaceMonthDay(current_date, 12, 31))>>
          [] OTHER            -> <<current_date, current_date>>

\* lines 168-170: the month before cur's, day clamped to 28
MonthLeftNoRollover(cur) ==
    LET month == IF MonthOf(cur) - 1 # 0 THEN MonthOf(cur) - 1 ELSE 12
    IN  MakeDate(YearOf(cur), month, Min(DayOf(cur), 28))
MonthLeft(cur) ==
    LET month == IF MonthOf(cur) - 1 # 0 THEN MonthOf(cur) - 1 ELSE 12
        year  == YearOf(cur) - (IF month = 12 THEN 1 ELSE 0)
    IN  MakeDate(year, month, Min(DayOf(cur), 28))

\* a month forward as 31 days forward
MonthRightPlus31(cur) == Some(cur + 31)

\* lines 184-187: the month after cur's, day clamped to 28
MonthRight(cur) ==
    LET month0 == MonthOf(cur) + 1
        year   == YearOf(cur) + (IF month0 > 12 THEN 1 ELSE 0)
        month  == IF month0 <= 12 THEN month0 ELSE 1
    IN  MakeDate(year, month, Min(DayOf(cur), 28))

\* lines 163-172: the value shift_period_left assigns for an initialised
\* anchor; None where the assignment's right-hand side raises ValueError.
\* A period outside the four kinds matches no branch: nothing is assigned.
ShiftLeftDate(period, cur) ==
    CASE period = "Day"   -> Some(cur - 1)
      [] period = "Week"  -> Some(cur - 7)
      [] period = "Month" -> MonthLeft(cur)
      [] period = "Year"  -> ReplaceYear(cur, YearOf(cur) - 1)
      [] OTHER            -> Some(cur)

\* lines 179-189
ShiftRightDate(period, cur) ==
    CASE period = "Day"   -> Some(cur + 1)
      [] period = "Week"  -> Some(cur + 7)
      [] period = "Month" -> MonthRight(cur)
      [] period = "Year"  -> ReplaceYear(cur, YearOf(cur) + 1)
      [] OTHER            -> Some(cur)

-----------------------------------------------------------------------------
(* Numbers and their formatting *)

RECURSIVE Gcd(_, _)
Gcd(a, b) == IF b = 0 THEN a ELSE Gcd(b, a % b)

\* Python's round(num / den) for den > 0: to nearest, ties to even
RoundHalfEven(num, den) ==
    LET q == num \div den
        r == num % den
    IN  IF 2 * r < den THEN q
        ELSE IF 2 * r > den THEN q + 1
        ELSE IF q % 2 = 0 THEN q ELSE q + 1

\* Python's int(x) of num / den for den > 0: truncation toward zero
TruncDiv(num, den) == IF num >= 0 THEN num \div den ELSE -((-num) \div den)

DigitChar(d) == CASE d = 0 -> "0" [] d = 1 -> "1" [] d = 2 -> "2" [] d = 3 -> "3"
                  [] d = 4 -> "4" [] d = 5 -> "5" [] d = 6 -> "6" [] d = 7 -> "7"
                  [] d = 8 -> "8" [] d = 9 -> "9"

RECURSIVE Digits(_)
\* the decimal digits of n >= 0
Digits(n) == IF n < 10 THEN <<DigitChar(n)>>
             ELSE Append(Digits(n \div 10), DigitChar(n % 10))

\* f"{n:02d}": the characters of n, zero-padded to width 2 (the sign counts)
Fmt02d(n) ==
    IF n < 0 THEN <<"-">> \o Digits(-n)
    ELSE IF n < 10 THEN <<"0">> \o Digits(n)
    ELSE Digits(n)

\* lines 12-15: hours_to_hhmm, the characters of "HH:MM"; hours = ms / MsPerHour
HhmmHours(ms) == TruncDiv(ms, MsPerHour)
HhmmMinutes(ms) == RoundHalfEven(ms - HhmmHours(ms) * MsPerHour, MsPerMinute)
hours_to_hhmm(ms) == Fmt02d(HhmmHours(ms)) \o <<":">> \o Fmt02d(HhmmMinutes(ms))

\* line 440: int(round((part / total) * 100)) if total > 0 else 0
Percentage(part, total) ==
    IF total > 0
    THEN LET g == Gcd(total, IF part >= 0 THEN part ELSE -part)
         IN  RoundHalfEven(100 * (part \div g), total \div g)
    ELSE 0

-----------------------------------------------------------------------------
(* The catalog and the daily matrix (time.py 192-212) *)

Categories(segs) == {segs[i].activityCategoryName : i \in 1..Len(segs)}

RECURSIVE SumHours(_)
\* df['duration_hours'].sum()
SumHours(segs) ==
    IF segs = <<>> THEN 0 ELSE Head(segs).duration_hours + SumHours(Tail(segs))

OfCategory(segs, cat) == SelectSeq(segs, LAMBDA g : g.activityCategoryName = cat)

\* line 196: yearly_totals[cat]
CategoryTotal(segs, cat) == SumHours(OfCategory(segs, cat))

\* lines 197-200: `order` is a result sort_values(ascending=False) may give:
\* every category once, totals not increasing; the order among equal totals
\* is whatever the sort leaves
IsAscendingOrder(order, segs) ==
    /\ Len(order) = Cardinality(Categories(segs))
    /\ Range(order) = Categories(segs)
    /\ \A i \in 1..Len(order) : \A j \in 1..Len(order) :
          i < j => CategoryTotal(segs, order[i]) <= CategoryTotal(segs, order[j])
IsCatalogOrder(order, segs) ==
    /\ Len(order) = Cardinality(Categories(segs))
    /\ Range(order) = Categories(segs)
    /\ \A i \in 1..Len(order) : \A j \in 1..Len(order) :
          i < j => CategoryTotal(segs, order[i]) >= CategoryTotal(segs, order[j])

\* lines 192-202: the orders global_category_order may hold ([] for no data)
CatalogOrders(segs) ==
    {order \in [1..Cardinality(Categories(segs)) -> Categories(segs)] :
        IsCatalogOrder(order, segs)}

\* .round(9) of x = ms / MsPerHour hours, in units of 1e-9 hour: the value is
\* 2500 * q + n of these units (1 ms = 2500/9 units)
Round9(ms) == [q |-> ms \div 9, n |-> RoundHalfEven(2500 * (ms % 9), 9)]

\* lines 193-194: category_duration, (date, category) -> rounded hours,
\* zero-filled; the empty function when there are no segments
CategoryDuration(segs) ==
    [k \in {segs[i].date : i \in 1..Len(segs)} \X Categories(segs) |->
        Round9(SumHours(SelectSeq(segs, LAMBDA g :
                   g.date = k[1] /\ g.activityCategoryName = k[2])))]

\* str(c).strip().lower() / .str.lower() of a category name
Lower(c) == IF c \in {"Sleep", "SLEEP", "sleep"} THEN "sleep" ELSE c

\* lines 209-212
ActiveCategoryOrder(order, sleep) ==
    IF sleep THEN order ELSE SelectSeq(order, LAMBDA c : Lower(c) # "sleep")

-----------------------------------------------------------------------------
(* show_copyable_text (time.py 423-483): the lines of the summary.  A line  *)
(* is the sequence of its characters; a literal piece and a name count as   *)
(* one character each.                                                      *)

RECURSIVE Unique(_)
\* Series.unique(): the distinct values, in order of first appearance
Unique(s) ==
    IF s = <<>> THEN <<>>
    ELSE <<Head(s)>> \o Unique(SelectSeq(Tail(s), LAMBDA x : x # Head(s)))

Column(segs, f(_)) == [i \in 1..Len(segs) |-> f(segs[i])]

RECURSIVE InsertByHours(_, _)
\* where a stable descending sort puts entry e among the sorted entries s
InsertByHours(e, s) ==
    IF s = <<>> THEN <<e>>
    ELSE IF Head(s).hours >= e.hours THEN <<Head(s)>> \o InsertByHours(e, Tail(s))
    ELSE <<e>> \o s

RECURSIVE SortByHoursDesc(_)
\* line 451: list.sort(key = hours, reverse = True), which is stable
SortByHoursDesc(s) ==
    IF s = <<>> THEN <<>>
    ELSE Bind(SortByHoursDesc(SubSeq(s, 1, Len(s) - 1)),
              LAMBDA sorted : InsertByHours(s[Len(s)], sorted))

RECURSIVE JoinComma(_)
\* ', '.join(notes)
JoinComma(notes) ==
    IF notes = <<>> THEN <<>>
    ELSE IF Len(notes) = 1 THEN <<notes[1]>>
    ELSE <<notes[1], ", ">> \o JoinComma(Tail(notes))

\* lines 458-464: the notes of an activity, at most 3 and a count of the rest
NotesStr(act_df) ==
    Bind(Unique(SelectSeq(Column(act_df, LAMBDA g : g.note), LAMBDA n : n # "")),
         LAMBDA notes :
        IF Len(notes) = 0 THEN <<>>
        ELSE <<" (">> \o JoinComma(SubSeq(notes, 1, Min(3, Len(notes))))
             \o (IF Len(notes) > 3
                 THEN <<" (+">> \o Digits(Len(notes) - 3) \o <<" more)">>
                 ELSE <<>>)
             \o <<")">>)

SubPrefix == "   |_ "

\* line 441: "<pct>% <hh:mm>h <name>"
EntryLine(pct, ms, name) ==
    Fmt02d(pct) \o <<"%", " ">> \o hours_to_hhmm(ms) \o <<"h", " ", name>>

\* lines 444-467: the indented lines of one category, one per activity
ActivityEntry(cat_df, a) ==
    Bind(SelectSeq(cat_df, LAMBDA g : g.activityName = a), LAMBDA act_df :
        [act |-> a, hours |-> SumHours(act_df), df |-> act_df])

ActivityLines(cat_df, total_hours) ==
    Bind(Unique(Column(cat_df, LAMBDA g : g.activityName)), LAMBDA acts :
    Bind(SortByHoursDesc([i \in 1..Len(acts) |-> ActivityEntry(cat_df, acts[i])]),
         LAMBDA sorted :
        [i \in 1..Len(sorted) |->
            <<SubPrefix>>
            \o EntryLine(Percentage(sorted[i].hours, total_hours),
                         sorted[i].hours, sorted[i].act)
            \o NotesStr(sorted[i].df)]))

\* line 433
OrderedCats(order, df) == SelectSeq(order, LAMBDA c : c \in Categories(df))

RECURSIVE CategoryBlocks(_, _, _)
\* lines 435-470: for each category its line, then its activities' lines
CategoryBlocks(cats, df, total_hours) ==
    IF cats = <<>> THEN <<>>
    ELSE Bind(OfCategory(df, Head(cats)), LAMBDA cat_df :
             <<EntryLine(Percentage(SumHours(cat_df), total_hours),
                         SumHours(cat_df), Head(cats))>>
             \o ActivityLines(cat_df, total_hours))
         \o CategoryBlocks(Tail(cats), df, total_hours)

\* lines 423-471: `lines` (text_block is their join with newlines)
show_copyable_text(period_df, order) ==
    Bind(SumHours(period_df), LAMBDA total_hours :
        CategoryBlocks(OrderedCats(order, period_df), period_df, total_hours))

-----------------------------------------------------------------------------
(* timeline_for_period and one run of the script (time.py 138, 192-202,     *)
(* 216-421, 512-523)                                                        *)

RECURSIVE MaxDateFrom(_, _)
MaxDateFrom(segs, best) ==
    IF segs = <<>> THEN best
    ELSE MaxDateFrom(Tail(segs), Max(best, Head(segs).date))

\* df_split['date'].max() of a non-empty df_split
MaxDate(segs) == MaxDateFrom(Tail(segs), Head(segs).date)

\* lines 218-219: the anchor of a kind is set on first access only
DefaultAnchor(segs, td) == IF segs # <<>> THEN MaxDate(segs) ELSE td

InitAnchor(ss, period, segs, td) ==
    IF IsSome(ss[period]) THEN ss
    ELSE [ss EXCEPT ![period] = Some(DefaultAnchor(segs, td))]

\* lines 242-250: the rows of the window, without Sleep when the box is off
WindowSlice(segs, window, sleep) ==
    SelectSeq(segs, LAMBDA g : /\ g.date >= window[1] /\ g.date <= window[2]
                               /\ (sleep \/ Lower(g.activityCategoryName) # "sleep"))

\* lines 216-421: one tab.  The result holds the session state after the
\* pass, what the tab shows, and the exception that ended the pass: with no
\* segments period_df is a frame without columns (line 245) and
\* sort_values(['start']) (line 354) raises KeyError.
timeline_for_period(period, ss, segs, order, sleep, td) ==
    Bind(InitAnchor(ss, period, segs, td), LAMBDA ss1 :
    Bind(get_period_dates(period, ss1[period], td), LAMBDA window :
    Bind(WindowSlice(segs, window, sleep), LAMBDA period_df :
        [ss  |-> ss1,
         tab |-> Some([window |-> window, period_df |-> period_df,
                       text |-> IF period_df # <<>>
                                THEN Some(show_copyable_text(period_df, order))
                                ELSE None]),
         err |-> IF segs = <<>> THEN "KeyError" ELSE "none"])))

NoView == [p \in Periods |-> None]
Tabs == <<"Day", "Week", "Month", "Year">>

RECURSIVE RunTabs(_, _, _, _, _, _, _)
\* lines 516-523: the tabs in order; an exception ends the run
RunTabs(tabs, ss, vw, segs, order, sleep, td) ==
    IF tabs = <<>> THEN [ss |-> ss, view |-> vw, err |-> "none"]
    ELSE Bind(timeline_for_period(Head(tabs), ss, segs, order, sleep, td),
              LAMBDA r :
                IF r.err # "none"
                THEN [ss |-> r.ss, view |-> [vw EXCEPT ![Head(tabs)] = r.tab],
                      err |-> r.err]
                ELSE Bind([s |-> r.ss, v |-> [vw EXCEPT ![Head(tabs)] = r.tab]],
                          LAMBDA n : RunTabs(Tail(tabs), n.s, n.v, segs, order,
                                             sleep, td)))

\* one run of the script over the segments of the loaded rows
RunScript(segs, ss, order, sleep, td) ==
    RunTabs(Tabs, ss, NoView, segs, order, sleep, td)

-----------------------------------------------------------------------------
(* Inputs *)

Noon == 12 * MsPerHour

\* the splitter's inputs: one row; starts around a year's end and a leap day
SplitDays == {Ymd2Ord(2023, 12, 31), Ymd2Ord(2024, 2, 28)}
SplitTimes == {0, 1, Noon, 23 * MsPerHour, MsPerDay - 1}
SplitSpans == {k * MsPerDay + r : k \in 0..MaxSpanDays,
                                  r \in {0, 1, MsPerHour, 2 * MsPerHour, Noon,
                                         MsPerDay - 1}}
SplitDurations ==
    {Some(d) : d \in SplitSpans}
    \cup {Some(-d) : d \in {1, MsPerHour, MsPerDay + MsPerHour}}
    \cup {None}
SplitStarts == {Some(Ts(d, t)) : d \in SplitDays, t \in SplitTimes} \cup {None}
SplitRows == {Row("Work", "code", s, d, "") : s \in SplitStarts, d \in SplitDurations}

\* the calendar's inputs: every day of fourteen months that hold each month of
\* the year, a common and a leap February, and the turn of a year
CalDates == Ymd2Ord(2023, 2, 1) .. Ymd2Ord(2024, 3, 31)
CalRow(d) == Row("Work", "code", Some(Ts(d, Noon)), Some(MsPerHour), "")

\* a session's inputs: rows that satisfy the loader's contract (duration >= 0)
SessionDay == Ymd2Ord(2024, 2, 27)
SessionRows ==
    { Row("A", "a1", Some(Ts(SessionDay, 9 * MsPerHour)), Some(6 * MsPerHour), "n1"),
      Row("B", "b1", Some(Ts(SessionDay, 15 * MsPerHour)), Some(4 * MsPerHour), ""),
      Row("A", "a2", Some(Ts(SessionDay + 1, 23 * MsPerHour)), Some(MsPerHour), "n2"),
      Row("Sleep", "night", Some(Ts(SessionDay, 22 * MsPerHour)), Some(7 * MsPerHour), ""),
      Row("B", "b2", Some(Ts(SessionDay - 7, Noon)), Some(0), "") }
SessionData == UNION {[1..n -> SessionRows] : n \in 0..MaxRows}
TodayDates == {Ymd2Ord(2024, 2, 29), Ymd2Ord(2023, 7, 15)}

-----------------------------------------------------------------------------
(* States and steps *)

\* the state after the first run of the script over `raw`
FirstRun(raw, td, sleep) ==
    /\ df_raw = raw
    /\ today = td
    /\ include_sleep = sleep
    /\ df_split = build_split(raw)
    /\ global_category_order \in CatalogOrders(build_split(raw))
    /\ category_duration = CategoryDuration(build_split(raw))
    /\ \E r \in {RunScript(df_split, [p \in Periods |-> None],
                            global_category_order, sleep, td)} :
          session_state = r.ss /\ view = r.view /\ err = r.err
    /\ trail = <<>>
    /\ stage = "session"

\* a rerun of the script: the data, its segments and the catalog are those of
\* the first run (same rows, deterministic computation); the tabs are rendered
\* again from the session state
Rendered(ss, sleep) ==
    \E r \in {RunScript(df_split, ss, global_category_order, sleep, today)} :
        session_state' = r.ss /\ view' = r.view /\ err' = r.err

\* lines 159-162 / 175-178: the anchor was never set
UnsetAnchor(segs) == IF segs # <<>> THEN Some(MaxDate(segs)) ELSE None

\* a click that keeps one anchor for all four tabs
ClickSharedKey(period, assigned, raised) ==
    IF IsSome(assigned)
    THEN Rendered([p \in Periods |-> assigned], include_sleep)
    ELSE session_state' = session_state /\ view' = NoView /\ err' = raised

\* A click on a tab's button: the callback, then the rerun.  A callback that
\* raises ends the run before the script is executed: nothing is assigned and
\* nothing is rendered.
Click(period, assigned, raised) ==
    IF IsSome(assigned)
    THEN Rendered([session_state EXCEPT ![period] = assigned], include_sleep)
    ELSE session_state' = session_state /\ view' = NoView /\ err' = raised

\* lines 158-172, the button of line 235
shift_period_left(period, bound) ==
    /\ stage = "session"
    /\ IsSome(view[period])
    /\ Len(trail) < bound
    /\ IF IsSome(session_state[period])
       THEN Click(period, ShiftLeftDate(period, Val(session_state[period])), "ValueError")
       ELSE Click(period, UnsetAnchor(df_split), "KeyError")
    /\ trail' = Append(trail, <<"left", period>>)
    /\ UNCHANGED <<df_raw, df_split, global_category_order, category_duration,
                   include_sleep, today, stage>>

\* lines 174-189, the button of line 237
shift_period_right(period, bound) ==
    /\ stage = "session"
    /\ IsSome(view[period])
    /\ Len(trail) < bound
    /\ IF IsSome(session_state[period])
       THEN Click(period, ShiftRightDate(period, Val(session_state[period])), "ValueError")
       ELSE Click(period, UnsetAnchor(df_split), "KeyError")
    /\ trail' = Append(trail, <<"right", period>>)
    /\ UNCHANGED <<df_raw, df_split, global_category_order, category_duration,
                   include_sleep, today, stage>>

\* line 206: the checkbox is toggled and the script reruns
ToggleSleep ==
    /\ stage = "session"
    /\ err # "ValueError"
    /\ include_sleep' = ~include_sleep
    /\ Rendered(session_state, ~include_sleep)
    /\ UNCHANGED <<df_raw, df_split, global_category_order, category_duration,
                   today, trail, stage>>

\* the script reruns with no widget changed
Rerun ==
    /\ stage = "session"
    /\ Rendered(session_state, include_sleep)
    /\ UNCHANGED <<df_raw, df_split, global_category_order, category_duration,
                   include_sleep, today, trail, stage>>

\* line 138: build_split over the loaded rows
RunBuildSplit ==
    /\ stage = "loaded"
    /\ df_split' = build_split(df_raw)
    /\ stage' = "split"
    /\ UNCHANGED <<df_raw, global_category_order, category_duration, include_sleep,
                   today, session_state, view, err, trail>>

-----------------------------------------------------------------------------
(* Specifications *)

\* a session over a few rows
Init == \E raw \in SessionData : \E td \in TodayDates : \E sleep \in BOOLEAN :
            FirstRun(raw, td, sleep)

ShiftLeft == \E p \in Periods : shift_period_left(p, MaxSessionShifts)
ShiftRight == \E p \in Periods : shift_period_right(p, MaxSessionShifts)

Next == ShiftLeft \/ ShiftRight \/ ToggleSleep \/ Rerun

Spec == Init /\ [][Next]_vars

\* the calendar: a session whose data ends on any day of two years
InitCal == \E d \in CalDates : FirstRun(<<CalRow(d)>>, Ymd2Ord(2023, 7, 15), TRUE)

CalShiftLeft == \E p \in Periods : shift_period_left(p, MaxShifts)
CalShiftRight == \E p \in Periods : shift_period_right(p, MaxShifts)

NextCal == CalShiftLeft \/ CalShiftRight

SpecCal == InitCal /\ [][NextCal]_vars

\* the splitter alone, over one row
InitSplit ==
    /\ df_raw \in {<<r>> : r \in SplitRows}
    /\ df_split = <<>>
    /\ global_category_order = <<>>
    /\ category_duration = <<>>
    /\ include_sleep = TRUE
    /\ today = Ymd2Ord(2023, 7, 15)
    /\ session_state = [p \in Periods |-> None]
    /\ view = NoView
    /\ err = "none"
    /\ trail = <<>>
    /\ stage = "loaded"

NextSplit == RunBuildSplit

SpecSplit == InitSplit /\ [][NextSplit]_vars

\* the three period functions called on their own, with any kind: the four
\* kinds of the tabs and one that is none of them
Kinds == Periods \cup {"Quarter"}
CallDates == {Ymd2Ord(2023, 12, 31), Ymd2Ord(2024, 1, 31), Ymd2Ord(2024, 2, 29)}

InitCall ==
    \E d \in CallDates : \E a \in CallDates :
        /\ df_raw = <<CalRow(d)>>
        /\ df_split = build_split(df_raw)
        /\ global_category_order \in CatalogOrders(df_split)
        /\ category_duration = CategoryDuration(df_split)
        /\ include_sleep = TRUE
        /\ today = Ymd2Ord(2023, 7, 15)
        /\ session_state \in [Kinds -> {None, Some(a)}]
        /\ view = [k \in Kinds |-> None]
        /\ err = "none"
        /\ trail = <<>>
        /\ stage = "call"

\* the callback on its own: the assignment of lines 161-172 / 177-189, or the
\* exception that ends the call
Callback(period, assigned, raised) ==
    IF IsSome(assigned)
    THEN session_state' = [session_state EXCEPT ![period] = assigned] /\ err' = "none"
    ELSE session_state' = session_state /\ err' = raised

\* lines 158-172
ShiftLeftCall(period) ==
    /\ stage = "call"
    /\ Len(trail) < MaxCalls
    /\ IF IsSome(session_state[period])
       THEN Callback(period, ShiftLeftDate(period, Val(session_state[period])), "ValueError")
       ELSE Callback(period, UnsetAnchor(df_split), "KeyError")
    /\ trail' = Append(trail, <<"left", period>>)
    /\ UNCHANGED <<df_raw, df_split, global_category_order, category_duration,
                   include_sleep, today, view, stage>>

\* lines 174-189
ShiftRightCall(period) ==
    /\ stage = "call"
    /\ Len(trail) < MaxCalls
    /\ IF IsSome(session_state[period])
       THEN Callback(period, ShiftRightDate(period, Val(session_state[period])), "ValueError")
       ELSE Callback(period, UnsetAnchor(df_split), "KeyError")
    /\ trail' = Append(trail, <<"right", period>>)
    /\ UNCHANGED <<df_raw, df_split, global_category_order, category_duration,
                   include_sleep, today, view, stage>>

\* lines 486-510: every branch returns a window, none raises
GetPeriodDatesCall(period) ==
    /\ stage = "call"
    /\ Len(trail) < MaxCalls
    /\ view' = [view EXCEPT ![period] =
                   Some([window |-> get_period_dates(period, session_state[period], today)])]
    /\ err' = "none"
    /\ trail' = Append(trail, <<"window", period>>)
    /\ UNCHANGED <<df_raw, df_split, global_category_order, category_duration,
                   include_sleep, today, session_state, stage>>

CallLeft == \E k \in Kinds : ShiftLeftCall(k)
CallRight == \E k \in Kinds : ShiftRightCall(k)
CallWindow == \E k \in Kinds : GetPeriodDatesCall(k)

NextCall == CallLeft \/ CallRight \/ CallWindow

SpecCall == InitCall /\ [][NextCall]_vars

\* the summary text of one record whose duration is not a whole number of
\* minutes: durations around the minute and around the hour, half minutes
\* left out
FmtDurations ==
    {h * MsPerHour + m * MsPerMinute + ms :
        h \in 0..MaxFmtHours, m \in {0, 1, 29, 30, 58, 59},
        ms \in {0, 1, 29999, 30001, 59999}}
FmtRow(d) == Row("Work", "code", Some(Ts(SessionDay, Noon)), Some(d), "")

InitFmt == \E d \in FmtDurations : \E sleep \in BOOLEAN :
              FirstRun(<<FmtRow(d)>>, Ymd2Ord(2024, 2, 29), sleep)

NextFmt == ToggleSleep \/ Rerun

SpecFmt == InitFmt /\ [][NextFmt]_vars

-----------------------------------------------------------------------------
(* The splitter's properties, checked under SpecSplit *)

\* the one row of the splitter's input, once build_split has run on it
SplitDone == stage = "split" /\ RowKept(df_raw[1])
RowStart == Val(df_raw[1].activityStartDate)
RowDuration == Val(df_raw[1].activityDuration)
RowEnd == TsAdd(RowStart, RowDuration)
SegmentDates == {df_split[i].date : i \in 1..Len(df_split)}

\* C1: for a record of duration >= 0 the duration_hours of its segments sum to
\* duration_ms / 3600000 (both sides are held as numerators over MsPerHour),
\* however many midnights the record crosses.
C1_DurationConserved ==
    (SplitDone /\ RowDuration >= 0) => SumHours(df_split) = RowDuration

\* C1 witness: a record that crosses two midnights has been split
C1_Witness ==
    /\ SplitDone /\ RowDuration > 2 * MsPerDay
    /\ Len(df_split) >= 3
    /\ df_split[1].duration_hours > 0

\* the calendar days the half-open interval [start, end) overlaps
OverlappedDays(start, end) ==
    {d \in start.day .. end.day :
        /\ TsDiffMs(end, start) > 0
        /\ (d < end.day \/ end.ms > 0)}

\* C2 (as claimed): the distinct dates of a record's segments are exactly the
\* calendar days that [start, start + duration) overlaps, also when the end
\* falls on midnight and when the duration is 0.
C2_DatesAreOverlappedDays ==
    (SplitDone /\ RowDuration >= 0) => SegmentDates = OverlappedDays(RowStart, RowEnd)

\* C3: for a record of duration >= 0 the segments are in chronological order,
\* each lies within the calendar day of its start (its date), consecutive
\* segments are contiguous, the first starts at the record's start and the
\* last ends at start + duration.
C3_SegmentsContiguous ==
    (SplitDone /\ RowDuration >= 0) =>
        /\ Len(df_split) >= 1
        /\ df_split[1].start = RowStart
        /\ df_split[Len(df_split)].end = RowEnd
        /\ \A i \in 1..Len(df_split) :
              /\ TsLe(df_split[i].start, df_split[i].end)
              /\ TsLe(df_split[i].end, Ts(df_split[i].start.day + 1, 0))
              /\ df_split[i].date = df_split[i].start.day
              /\ TsDiffMs(df_split[i].end, df_split[i].start) = df_split[i].duration_hours
        /\ \A i \in 1..(Len(df_split) - 1) :
              /\ df_split[i].end = df_split[i + 1].start
              /\ TsLe(df_split[i].start, df_split[i + 1].start)
              /\ df_split[i].start # df_split[i + 1].start

\* C3 witness: the scenario 23:00 + 2 h, split at midnight into 1 h and 1 h
C3_Witness ==
    /\ SplitDone
    /\ RowStart.ms = 23 * MsPerHour /\ RowDuration = 2 * MsPerHour
    /\ Len(df_split) = 2
    /\ df_split[1].end = Ts(RowStart.day + 1, 0)
    /\ df_split[1].duration_hours = MsPerHour
    /\ df_split[2].duration_hours = MsPerHour
    /\ df_split[2].date = RowStart.day + 1

\* C4 (as claimed): a record of negative duration is dropped, build_split
\* emits no segment for it, and no segment has a negative duration_hours.
C4_NegativeDropped ==
    /\ (SplitDone /\ RowDuration < 0) => df_split = <<>>
    /\ \A i \in 1..Len(df_split) : df_split[i].duration_hours >= 0

-----------------------------------------------------------------------------
(* The calendar's properties, checked under SpecCal *)

\* the anchor of a kind, and the window its tab showed on the last run
Anchor(p) == Val(session_state[p])
Shown(p) == IsSome(view[p]) /\ IsSome(session_state[p])
Window(p) == Val(view[p]).window

\* the clicks of one kind, in order
ClicksOf(p) == SelectSeq(trail, LAMBDA c : c[2] = p)

\* the anchor every kind starts from: the last date of the data
FirstAnchor == MaxDate(df_split)

\* C5: the Week window of every anchor, also of one reached by any sequence of
\* Week shifts, starts on a Monday, ends 6 days later and contains the anchor.
C5_WeekWindow ==
    Shown("Week") =>
        /\ Weekday(Window("Week")[1]) = 0
        /\ Window("Week")[2] = Window("Week")[1] + 6
        /\ Window("Week")[1] <= Anchor("Week")
        /\ Anchor("Week") <= Window("Week")[2]

\* C5 witness: a Sunday anchor reached by two Week shifts
C5_Witness ==
    /\ Shown("Week")
    /\ Len(ClicksOf("Week")) = 2
    /\ Weekday(Anchor("Week")) = 6
    /\ Window("Week")[1] = Anchor("Week") - 6

\* C6: the Month window of every anchor runs from the 1st to the last calendar
\* day of the anchor's month, for every month and for February of leap and of
\* common years.
C6_MonthWindow ==
    Shown("Month") =>
        LET y == YearOf(Anchor("Month"))
            m == MonthOf(Anchor("Month"))
        IN  /\ Window("Month")[1] = Ymd2Ord(y, m, 1)
            /\ Window("Month")[2] = Ymd2Ord(y, m, DaysInMonth(y, m))
            /\ MonthOf(Window("Month")[2] + 1) # m

\* C6 witness: the window of a February anchor in a leap year ends on the 29th
C6_Witness ==
    /\ Shown("Month")
    /\ MonthOf(Anchor("Month")) = 2 /\ IsLeap(YearOf(Anchor("Month")))
    /\ DayOf(Window("Month")[2]) = 29

\* C7: a Month anchor (y, m, d) shifted left then right, or right then left,
\* is (y, m, min(d, 28)), across the turn of the year too.
C7_MonthRoundTrip ==
    (ClicksOf("Month") \in {<<<<"left", "Month">>, <<"right", "Month">>>>,
                            <<<<"right", "Month">>, <<"left", "Month">>>>}) =>
        session_state["Month"] =
            Some(Ymd2Ord(YearOf(FirstAnchor), MonthOf(FirstAnchor),
                         Min(DayOf(FirstAnchor), 28)))

\* C7 witness: January 31st, shifted left into December and back
C7_Witness ==
    /\ trail = <<<<"left", "Month">>, <<"right", "Month">>>>
    /\ MonthOf(FirstAnchor) = 1 /\ DayOf(FirstAnchor) = 31
    /\ MonthOf(Anchor("Month")) = 1 /\ DayOf(Anchor("Month")) = 28
    /\ YearOf(Anchor("Month")) = YearOf(FirstAnchor)

\* the date a Year shift by k years is claimed to give: same month and day,
\* the day clamped to the target month's length
YearShifted(a, k) ==
    Ymd2Ord(YearOf(a) + k, MonthOf(a),
            Min(DayOf(a), DaysInMonth(YearOf(a) + k, MonthOf(a))))

\* C8 (as claimed): a Year shift from any anchor never fails and gives the same
\* month and day one year earlier or later, February 29 clamped to the 28th.
C8_YearShiftTotal ==
    /\ (ClicksOf("Year") = <<<<"left", "Year">>>>) =>
          (err # "ValueError"
           /\ session_state["Year"] = Some(YearShifted(FirstAnchor, -1)))
    /\ (ClicksOf("Year") = <<<<"right", "Year">>>>) =>
          (err # "ValueError"
           /\ session_state["Year"] = Some(YearShifted(FirstAnchor, 1)))

-----------------------------------------------------------------------------
(* The summary's and the empty input's properties, checked under Spec *)

Tab(p) == Val(view[p])
HasText(p) == IsSome(view[p]) /\ IsSome(Tab(p).text)

\* the lines of a tab's summary that are not indented
TopLines(p) == SelectSeq(Val(Tab(p).text), LAMBDA l : l[1] # SubPrefix)

\* the place of a category in the catalog
CatalogIndex(cat) == CHOOSE i \in 1..Len(global_category_order) :
                        global_category_order[i] = cat

\* round(100 * part / total): the nearest integer, a tie going to the even
\* one; 0 when the total is 0
NearestPercent(part, total) ==
    IF total = 0 THEN 0
    ELSE LET g == Gcd(total, part)
             a == 100 * (part \div g)
             b == total \div g
         IN  CHOOSE n \in 0..100 :
                \/ 2 * (a - n * b) < b /\ 2 * (n * b - a) < b
                \/ 2 * (a - n * b) = b /\ n % 2 = 0
                \/ 2 * (n * b - a) = b /\ n % 2 = 0

\* C9: the summary of a non-empty slice has exactly one top-level line per
\* category of the slice, in catalog order (total over all segments,
\* descending), each "<pct>% <hh:mm>h <category>" with pct the rounded share of
\* the slice's total, 0 when that total is 0; A = 6 h and B = 4 h give
\* "60% 06:00h A" then "40% 04:00h B".
C9_SummaryLines ==
    \A p \in Periods : (IsSome(view[p]) /\ Tab(p).period_df # <<>>) =>
        LET df    == Tab(p).period_df
            top   == TopLines(p)
            name(i) == top[i][Len(top[i])]
        IN  /\ HasText(p)
            /\ Len(top) = Cardinality(Categories(df))
            /\ \A i \in 1..Len(top) :
                  /\ name(i) \in Categories(df)
                  /\ top[i] = Fmt02d(NearestPercent(CategoryTotal(df, name(i)),
                                                    SumHours(df)))
                              \o <<"%", " ">>
                              \o hours_to_hhmm(CategoryTotal(df, name(i)))
                              \o <<"h", " ", name(i)>>
            /\ \A i \in 1..Len(top) : \A j \in 1..Len(top) : i < j =>
                  /\ name(i) # name(j)
                  /\ CatalogIndex(name(i)) < CatalogIndex(name(j))
                  /\ CategoryTotal(df_split, name(i)) >= CategoryTotal(df_split, name(j))
            /\ (/\ Categories(df) = {"A", "B"}
                /\ CategoryTotal(df, "A") = 6 * MsPerHour
                /\ CategoryTotal(df, "B") = 4 * MsPerHour) =>
                  top = << <<"6", "0", "%", " ", "0", "6", ":", "0", "0", "h", " ", "A">>,
                           <<"4", "0", "%", " ", "0", "4", ":", "0", "0", "h", " ", "B">> >>

\* C9 witness: the Day tab shows the slice A = 6 h, B = 4 h and its two lines
C9_Witness ==
    /\ HasText("Day")
    /\ Categories(Tab("Day").period_df) = {"A", "B"}
    /\ CategoryTotal(Tab("Day").period_df, "A") = 6 * MsPerHour
    /\ CategoryTotal(Tab("Day").period_df, "B") = 4 * MsPerHour
    /\ Len(TopLines("Day")) = 2
    /\ TopLines("Day")[1][1] = "6"

\* C10 (as claimed): with no segments at all, and with a window that holds no
\* segment, every tab is rendered with an empty slice and no summary text, the
\* catalog and the matrix are empty, and no exception is raised.
C10_EmptyInputNeverRaises ==
    /\ (stage = "session" /\ df_split = <<>> /\ trail = <<>>) =>
          /\ err = "none"
          /\ global_category_order = <<>>
          /\ DOMAIN category_duration = {}
          /\ \A p \in Periods :
                IsSome(view[p]) /\ Tab(p).period_df = <<>> /\ ~IsSome(Tab(p).text)
    /\ \A p \in Periods :
          (IsSome(view[p]) /\ df_split # <<>> /\ Tab(p).period_df = <<>>) =>
              (err = "none" /\ ~IsSome(Tab(p).text))

-----------------------------------------------------------------------------
(* The period functions on a kind that is none of the four, checked under  *)
(* SpecCall                                                                 *)

LastCall == trail[Len(trail)]

\* C11 (as claimed): a call of get_period_dates, shift_period_left or
\* shift_period_right with a kind outside Day, Week, Month, Year ends with an
\* error: it returns no window and does not leave the call without a signal.
C11_UnknownKindFails ==
    (stage = "call" /\ trail # <<>> /\ LastCall[2] \notin Periods) => err # "none"

-----------------------------------------------------------------------------
(* The anchors over a session, checked under Spec *)

\* a step that is a click on a shift button of kind p
ShiftStepOf(p) ==
    \E dir \in {"left", "right"} : trail' = Append(trail, <<dir, p>>)

\* C12: an anchor is first set to the maximum segment date (to today when
\* there is no segment), and an anchor that is set changes only in a step
\* that is a shift left or right of its own kind: a shift of another kind, a
\* rerun and a change of the checkbox leave it as it was.
C12_AnchorFrame ==
    /\ \A p \in Periods :
          IsSome(session_state[p]) =>
              session_state[p] = Some(DefaultAnchor(df_split, today))
    /\ [][\A p \in Periods :
            /\ (IsSome(session_state[p]) /\ session_state'[p] # session_state[p])
                  => ShiftStepOf(p)
            /\ (~IsSome(session_state[p]) /\ IsSome(session_state'[p]))
                  => session_state'[p] = Some(DefaultAnchor(df_split, today))]_vars

\* C12 witness: after one click on the Week tab the Week anchor has moved and
\* the three other anchors are still the maximum segment date
C12_Witness ==
    /\ stage = "session"
    /\ Len(trail) = 1
    /\ trail[1][2] = "Week"
    /\ \A p \in Periods : IsSome(session_state[p])
    /\ Anchor("Week") # FirstAnchor
    /\ \A p \in Periods \ {"Week"} : Anchor(p) = FirstAnchor

-----------------------------------------------------------------------------
(* Consecutive windows, checked under SpecCal *)

\* a click on button dir of tab p that ends with the tab rendered again
ShiftedTo(dir, p) ==
    /\ Shown(p)
    /\ trail' = Append(trail, <<dir, p>>)
    /\ IsSome(view'[p])

\* C13: for Day, Week, Month and every anchor, the window shown after a shift
\* right starts the day after the window shown before it ends, and the window
\* shown after a shift left ends the day before the window shown before it
\* starts (for Month from days 29-31 too); the same for Year whenever the
\* shift yields a date.
C13_WindowsAdjacent ==
    [][\A p \in Periods :
          /\ ShiftedTo("right", p) => Val(view'[p]).window[1] = Window(p)[2] + 1
          /\ ShiftedTo("left", p) => Val(view'[p]).window[2] = Window(p)[1] - 1]_vars

\* C13 witness: a Month anchor on the 31st was shifted right and the Month
\* tab shows the window that starts on the 1st of the following month
C13_Witness ==
    /\ trail = <<<<"right", "Month">>>>
    /\ DayOf(FirstAnchor) = 31
    /\ Shown("Month")
    /\ Window("Month")[1] =
          Ymd2Ord(YearOf(FirstAnchor), MonthOf(FirstAnchor), 31) + 1
    /\ DayOf(Anchor("Month")) = 28

-----------------------------------------------------------------------------
(* The HH:MM field of the summary lines, checked under SpecFmt *)

IsDigit(c) == \E d \in 0..9 : DigitChar(d) = c
DigitValue(c) == CHOOSE d \in 0..9 : DigitChar(d) = c

RECURSIVE NumberOf(_)
NumberOf(cs) ==
    IF cs = <<>> THEN 0
    ELSE 10 * NumberOf(SubSeq(cs, 1, Len(cs) - 1)) + DigitValue(cs[Len(cs)])

\* where the first c of line l is
FirstIndex(l, c) == CHOOSE i \in 1..Len(l) : l[i] = c /\ \A j \in 1..(i - 1) : l[j] # c

\* the characters between "% " and ":" and the characters between ":" and "h"
HoursField(l) == SubSeq(l, FirstIndex(l, "%") + 2, FirstIndex(l, ":") - 1)
MinutesField(l) == SubSeq(l, FirstIndex(l, ":") + 1, FirstIndex(l, "h") - 1)

\* line l prints duration ms as HH:MM, rounded to the nearest minute
IsHhmmOf(l, ms) ==
    /\ \E i \in 1..Len(l) : l[i] = ":"
    /\ \E i \in 1..Len(l) : l[i] = "h"
    /\ Len(HoursField(l)) >= 2 /\ \A i \in DOMAIN HoursField(l) : IsDigit(HoursField(l)[i])
    /\ Len(MinutesField(l)) = 2 /\ \A i \in 1..2 : IsDigit(MinutesField(l)[i])
    /\ NumberOf(MinutesField(l)) <= 59
    /\ LET shown == (60 * NumberOf(HoursField(l)) + NumberOf(MinutesField(l))) * MsPerMinute
       IN  2 * (shown - ms) <= MsPerMinute /\ 2 * (ms - shown) <= MsPerMinute

\* C14 (as claimed): every duration of the summary text is printed as HH:MM
\* with minutes from 00 to 59 and is the duration rounded to the nearest
\* minute; a duration less than half a minute below a whole hour is printed as
\* the next hour with minutes 00.
C14_HhmmWellFormed ==
    \A p \in Periods :
        HasText(p) =>
            \A i \in DOMAIN Val(Tab(p).text) :
                IsHhmmOf(Val(Tab(p).text)[i], SumHours(Tab(p).period_df))

====
